---- MODULE Spec2Model ----
(***************************************************************************)
(* A model of package apkox (pkg/apkox/apko.go): the ApkoBuilder fluent    *)
(* accumulator with its setters and BuildCommand, the keyring preset       *)
(* lookup GetKeyringInfoForPreset and the config-file check                *)
(* GetApkoConfigOrPreset.                                                  *)
(*                                                                         *)
(* Strings the code only stores, compares with "" and concatenates are     *)
(* TLA+ strings.  Strings the code inspects character by character (the    *)
(* preset name of the switch, the path handed to filepath.Ext) are         *)
(* sequences of one-character strings, "" being << >>.                     *)
(* A Go error is a sequence: << >> is the nil error, <<format, args...>>   *)
(* the error fmt.Errorf(format, args...) builds.                           *)
(***************************************************************************)
EXTENDS Integers, Sequences, FiniteSets, TLC

VARIABLES
  b,          \* the ApkoBuilder the receiver pointer refers to
  ret,        \* what the last call on the builder returned
  h,          \* history of the calls made on the builder (not program state)
  preset,     \* argument of GetKeyringInfoForPreset
  info,       \* its return value
  mntPrefix,  \* arguments of GetApkoConfigOrPreset
  cfgFile,
  cfgRet      \* its return value

vars == <<b, ret, h, preset, info, mntPrefix, cfgFile, cfgRet>>
builderVars == <<b, ret, h>>
presetVars == <<preset, info>>
configVars == <<mntPrefix, cfgFile, cfgRet>>

----------------------------------------------------------------------------
(* Bounds of the model *)

\* longest keyringPaths and extraArgs together, in the specification Spec
MaxList == 2
\* most optional settings given to one builder, in the specification SpecAll
MaxSettings == 2
\* longest config file path handed to GetApkoConfigOrPreset
MaxFileLen == 5

----------------------------------------------------------------------------
(* Constants of the package *)

NilErr == << >>

Errorf(format, args) == <<format>> \o args

ArchX8664 == "x86_64"

ArchAarch64 == "aarch64"

ApkoWolfiSigninRsaKeyPath == "/etc/apk/keys/wolfi-signing.rsa.pub"

ApkoAlpineSigninRsaKeyPath == "/etc/apk/keys/alpine-devel@lists.alpinelinux.org-4a6a0840.rsa.pub"

FixturesMntPrefix == <<"/", "m", "n", "t">>

WolfiName == <<"w", "o", "l", "f", "i">>

AlpineName == <<"a", "l", "p", "i", "n", "e">>

EmptyKeyringInfo == [KeyURL |-> "", KeyPath |-> ""]

----------------------------------------------------------------------------
(* GetKeyringInfoForPreset *)

ToLower(c) ==
  CASE c = "W" -> "w" [] c = "O" -> "o" [] c = "L" -> "l" [] c = "F" -> "f"
    [] c = "I" -> "i" [] c = "A" -> "a" [] c = "P" -> "p" [] c = "N" -> "n"
    [] c = "E" -> "e" [] OTHER -> c

\* a lookup that ignores the case of the preset name
GetKeyringInfoForPresetFold(p) ==
  LET q == [i \in 1..Len(p) |-> ToLower(p[i])] IN
  CASE q = AlpineName ->
         [info |-> [KeyURL  |-> "https://alpinelinux.org/keys/alpine-devel@lists.alpinelinux.org-4a6a0840.rsa.pub",
                    KeyPath |-> "/etc/apk/keys/alpine-devel@lists.alpinelinux.org-4a6a0840.rsa.pub"],
          err |-> NilErr]
    [] q = WolfiName ->
         [info |-> [KeyURL  |-> "https://packages.wolfi.dev/os/wolfi-signing.rsa.pub",
                    KeyPath |-> "/etc/apk/keys/wolfi-signing.rsa.pub"],
          err |-> NilErr]
    [] OTHER ->
         [info |-> EmptyKeyringInfo, err |-> Errorf("unsupported preset: %s", <<p>>)]

GetKeyringInfoForPreset(p) ==
  CASE p = AlpineName ->
         [info |-> [KeyURL  |-> "https://alpinelinux.org/keys/alpine-devel@lists.alpinelinux.org-4a6a0840.rsa.pub",
                    KeyPath |-> "/etc/apk/keys/alpine-devel@lists.alpinelinux.org-4a6a0840.rsa.pub"],
          err |-> NilErr]
    [] p = WolfiName ->
         [info |-> [KeyURL  |-> "https://packages.wolfi.dev/os/wolfi-signing.rsa.pub",
                    KeyPath |-> "/etc/apk/keys/wolfi-signing.rsa.pub"],
          err |-> NilErr]
    [] OTHER ->
         [info |-> EmptyKeyringInfo, err |-> Errorf("unsupported preset: %s", <<p>>)]

----------------------------------------------------------------------------
(* The builder *)

\* NewApkoBuilder: &ApkoBuilder{}, every field at its zero value
NewApkoBuilder ==
  [configFile |-> "", outputImage |-> "", tag |-> "", outputTarball |-> "",
   keyringPaths |-> << >>, cacheDir |-> "", extraArgs |-> << >>,
   wolfiKeyring |-> FALSE, alpineKeyring |-> FALSE,
   buildArch |-> "", buildContext |-> "", debug |-> FALSE,
   keyringAppendPlaintext |-> << >>, noNetwork |-> FALSE,
   repositoryAppend |-> << >>, timestamp |-> "",
   annotations |-> {}, buildDate |-> "", lockfile |-> "", offline |-> FALSE,
   packageAppend |-> << >>, sbom |-> FALSE, sbomFormats |-> << >>,
   sbomPath |-> "", vcs |-> FALSE, logLevel |-> "", logPolicy |-> << >>,
   workdir |-> ""]

\* no run of BuildCommand calls is under way
NoStreak == [n |-> 0, filled |-> FALSE, cmd |-> << >>]

\* nothing has been called yet
NoHistory ==
  [sbomCalled |-> FALSE, vcsCalled |-> FALSE,
   tagArg |-> << >>,          \* <<t>>: WithTag was last called with t
   keyringCalls |-> << >>,    \* the calls that add a keyring, in call order
   given |-> [extraArgs |-> << >>, keyringAppendPlaintext |-> << >>,
              repositoryAppend |-> << >>, packageAppend |-> << >>,
              sbomFormats |-> << >>, logPolicy |-> << >>],
   last |-> [sbomFormats |-> << >>, logPolicy |-> << >>],
   streak |-> NoStreak]

\* nothing was called on the builder yet
RetNone == [kind |-> "none", nilcmd |-> TRUE, cmd |-> << >>, err |-> NilErr]

\* the value a setter returns: the builder itself
RetBuilder == [kind |-> "builder", nilcmd |-> TRUE, cmd |-> << >>, err |-> NilErr]

\* the pair BuildCommand returns
RetResult(isnil, cmd, err) == [kind |-> "result", nilcmd |-> isnil, cmd |-> cmd, err |-> err]

\* a setter stores nb and returns the builder; nh is the history with the call added
Setter(nb, nh) ==
  /\ b' = nb
  /\ h' = [nh EXCEPT !.streak = NoStreak]
  /\ ret' = RetBuilder
  /\ UNCHANGED <<presetVars, configVars>>

WithBuildArch(arch) == Setter([b EXCEPT !.buildArch = arch], h)

WithConfigFile(configFile) == Setter([b EXCEPT !.configFile = configFile], h)

WithOutputImage(outputImage) == Setter([b EXCEPT !.outputImage = outputImage], h)

WithOutputTarball(outputTarball) == Setter([b EXCEPT !.outputTarball = outputTarball], h)

\* a WithKeyring that skips a path already stored
WithKeyringDedup(keyringPath) ==
  Setter(IF \E i \in 1..Len(b.keyringPaths) : b.keyringPaths[i] = keyringPath
           THEN b
           ELSE [b EXCEPT !.keyringPaths = Append(@, keyringPath)],
         [h EXCEPT !.keyringCalls = Append(@, [op |-> "WithKeyring", arg |-> keyringPath])])

WithKeyring(keyringPath) ==
  Setter([b EXCEPT !.keyringPaths = Append(@, keyringPath)],
         [h EXCEPT !.keyringCalls = Append(@, [op |-> "WithKeyring", arg |-> keyringPath])])

WithWolfiKeyring == Setter([b EXCEPT !.wolfiKeyring = TRUE], h)

WithAlpineKeyring == Setter([b EXCEPT !.alpineKeyring = TRUE], h)

WithArchitecture(arch) == Setter([b EXCEPT !.buildArch = arch], h)

WithCacheDir(cacheDir) == Setter([b EXCEPT !.cacheDir = cacheDir], h)

WithExtraArg(arg) ==
  Setter([b EXCEPT !.extraArgs = Append(@, arg)],
         [h EXCEPT !.given.extraArgs = Append(@, arg)])

WithBuildContext(dir) == Setter([b EXCEPT !.buildContext = dir], h)

WithDebug == Setter([b EXCEPT !.debug = TRUE], h)

WithKeyringAppendPlaintext(keyring) ==
  Setter([b EXCEPT !.keyringAppendPlaintext = Append(@, keyring)],
         [h EXCEPT !.given.keyringAppendPlaintext = Append(@, keyring)])

WithNoNetwork == Setter([b EXCEPT !.noNetwork = TRUE], h)

WithRepositoryAppend(repo) ==
  Setter([b EXCEPT !.repositoryAppend = Append(@, repo)],
         [h EXCEPT !.given.repositoryAppend = Append(@, repo)])

WithTimestamp(timestamp) == Setter([b EXCEPT !.timestamp = timestamp], h)

\* a WithTag that applies the default itself and so keeps no empty tag
WithTagIgnoreEmpty(tag) ==
  Setter(IF tag = "" THEN b ELSE [b EXCEPT !.tag = tag],
         [h EXCEPT !.tagArg = <<tag>>])

WithTag(tag) == Setter([b EXCEPT !.tag = tag], [h EXCEPT !.tagArg = <<tag>>])

WithAnnotations(annotations) == Setter([b EXCEPT !.annotations = annotations], h)

WithBuildDate(date) == Setter([b EXCEPT !.buildDate = date], h)

WithLockfile(path) == Setter([b EXCEPT !.lockfile = path], h)

WithOffline == Setter([b EXCEPT !.offline = TRUE], h)

\* a WithPackageAppend that assigns instead of appending
WithPackageAppendAssign(packages) ==
  Setter([b EXCEPT !.packageAppend = packages],
         [h EXCEPT !.given.packageAppend = @ \o packages])

WithPackageAppend(packages) ==
  Setter([b EXCEPT !.packageAppend = @ \o packages],
         [h EXCEPT !.given.packageAppend = @ \o packages])

WithSBOM(enable) == Setter([b EXCEPT !.sbom = enable], [h EXCEPT !.sbomCalled = TRUE])

WithSBOMFormats(formats) ==
  Setter([b EXCEPT !.sbomFormats = formats],
         [h EXCEPT !.given.sbomFormats = @ \o formats, !.last.sbomFormats = formats])

WithSBOMPath(path) == Setter([b EXCEPT !.sbomPath = path], h)

WithVCS(enable) == Setter([b EXCEPT !.vcs = enable], [h EXCEPT !.vcsCalled = TRUE])

WithLogLevel(level) == Setter([b EXCEPT !.logLevel = level], h)

WithLogPolicy(policies) ==
  Setter([b EXCEPT !.logPolicy = policies],
         [h EXCEPT !.given.logPolicy = @ \o policies, !.last.logPolicy = policies])

WithWorkdir(dir) == Setter([b EXCEPT !.workdir = dir], h)

WithKeyRingWolfi ==
  LET r == GetKeyringInfoForPreset(WolfiName) IN
  Setter(IF r.err = NilErr
           THEN [b EXCEPT !.keyringPaths = Append(@, r.info.KeyPath)]
           ELSE b,
         [h EXCEPT !.keyringCalls = Append(@, [op |-> "WithKeyRingWolfi", arg |-> ""])])

WithKeyRingAlpine ==
  LET r == GetKeyringInfoForPreset(AlpineName) IN
  Setter(IF r.err = NilErr
           THEN [b EXCEPT !.keyringPaths = Append(@, r.info.KeyPath)]
           ELSE b,
         [h EXCEPT !.keyringCalls = Append(@, [op |-> "WithKeyRingAlpine", arg |-> ""])])

----------------------------------------------------------------------------
(* BuildCommand *)

\* a validation that looks at the output image first
RequiredFieldErrorImageFirst(bb) ==
  IF bb.outputImage = "" THEN Errorf("output image name is required", << >>)
  ELSE IF bb.configFile = "" THEN Errorf("config file is required", << >>)
  ELSE IF bb.outputTarball = "" THEN Errorf("output tarball path is required", << >>)
  ELSE NilErr

\* the three early returns: the error of the first empty required field
RequiredFieldError(bb) ==
  IF bb.configFile = "" THEN Errorf("config file is required", << >>)
  ELSE IF bb.outputImage = "" THEN Errorf("output image name is required", << >>)
  ELSE IF bb.outputTarball = "" THEN Errorf("output tarball path is required", << >>)
  ELSE NilErr

\* if b.tag == "" { b.tag = "latest" }
DefaultTag(bb) == IF bb.tag = "" THEN [bb EXCEPT !.tag = "latest"] ELSE bb

\* for _, k := range b.keyringPaths { cmd = append(cmd, "--keyring-append", k) }
RECURSIVE KeyringFlags(_)
KeyringFlags(paths) ==
  IF paths = << >> THEN << >>
  ELSE <<"--keyring-append", Head(paths)>> \o KeyringFlags(Tail(paths))

\* flags with --arch emitted before the keyrings
FlagsArchFirst(bb) ==
  (IF bb.cacheDir # "" THEN <<"--cache-dir", bb.cacheDir>> ELSE << >>)
    \o (IF bb.buildArch # "" THEN <<"--arch", bb.buildArch>> ELSE << >>)
    \o KeyringFlags(bb.keyringPaths)
    \o (IF bb.buildContext # "" THEN <<"--build-repository-append", bb.buildContext>> ELSE << >>)
    \o (IF ~bb.sbom THEN <<"--sbom=false">> ELSE << >>)
    \o (IF ~bb.vcs THEN <<"--vcs=false">> ELSE << >>)

\* the tokens appended between the base command and the positionals
Flags(bb) ==
  (IF bb.cacheDir # "" THEN <<"--cache-dir", bb.cacheDir>> ELSE << >>)
    \o KeyringFlags(bb.keyringPaths)
    \o (IF bb.buildArch # "" THEN <<"--arch", bb.buildArch>> ELSE << >>)
    \o (IF bb.buildContext # "" THEN <<"--build-repository-append", bb.buildContext>> ELSE << >>)
    \o (IF ~bb.sbom THEN <<"--sbom=false">> ELSE << >>)
    \o (IF ~bb.vcs THEN <<"--vcs=false">> ELSE << >>)

\* fmt.Sprintf("%s:%s", b.outputImage, b.tag)
ImageRef(bb) == bb.outputImage \o ":" \o bb.tag

\* the command of a builder that passed validation and has its tag filled
Command(bb) ==
  <<"apko", "build">> \o Flags(bb)
    \o <<bb.configFile, ImageRef(bb), bb.outputTarball>>
    \o bb.extraArgs

\* a BuildCommand that fills the tag after the image reference was built
BuildCommandResultLateDefault(bb) ==
  LET err == RequiredFieldError(bb) IN
  IF err # NilErr
    THEN [b |-> bb, nilcmd |-> TRUE, cmd |-> << >>, err |-> err]
    ELSE [b |-> DefaultTag(bb), nilcmd |-> FALSE, cmd |-> Command(bb), err |-> NilErr]

\* a BuildCommand that fills the tag before it validates
BuildCommandResultEarlyDefault(bb) ==
  LET nb == DefaultTag(bb)
      err == RequiredFieldError(nb) IN
  IF err # NilErr
    THEN [b |-> nb, nilcmd |-> TRUE, cmd |-> << >>, err |-> err]
    ELSE [b |-> nb, nilcmd |-> FALSE, cmd |-> Command(nb), err |-> NilErr]

\* BuildCommand on builder bb: the builder it leaves and the pair it returns
BuildCommandResult(bb) ==
  LET err == RequiredFieldError(bb) IN
  IF err # NilErr
    THEN [b |-> bb, nilcmd |-> TRUE, cmd |-> << >>, err |-> err]
    ELSE LET nb == DefaultTag(bb) IN
         [b |-> nb, nilcmd |-> FALSE, cmd |-> Command(nb), err |-> NilErr]

BuildCommand ==
  LET r == BuildCommandResult(b) IN
  /\ b' = r.b
  /\ ret' = RetResult(r.nilcmd, r.cmd, r.err)
  /\ h' = [h EXCEPT !.streak =
             IF r.err # NilErr THEN NoStreak
             ELSE IF @.n = 0 THEN [n |-> 1, filled |-> (b.tag = ""), cmd |-> r.cmd]
             ELSE [@ EXCEPT !.n = 2]]
  /\ UNCHANGED <<presetVars, configVars>>

----------------------------------------------------------------------------
(* The specification Spec: one builder, the setters BuildCommand reads, and *)
(* BuildCommand, called in any order.                                      *)

ConfigFiles == {"", "app.yaml"}
Images == {"", "myimage"}
Tarballs == {"", "out.tar"}
Tags == {"", "v1"}
KeyringArgs == {"a", "b"}
CacheDirs == {"", "/cache"}
Archs == {"", ArchX8664}
Contexts == {"", "ctx"}
ExtraArgVals == {"--x", "y"}

InitPure ==
  /\ preset = << >>
  /\ info = [set |-> FALSE, info |-> EmptyKeyringInfo, err |-> NilErr]
  /\ mntPrefix = << >>
  /\ cfgFile = << >>
  /\ cfgRet = [set |-> FALSE, path |-> << >>, err |-> NilErr]

InitBuilder ==
  /\ b = NewApkoBuilder
  /\ ret = RetNone
  /\ h = NoHistory

Init == InitBuilder /\ InitPure

ListRoom == Len(b.keyringPaths) + Len(b.extraArgs) < MaxList

Next ==
  \/ \E x \in ConfigFiles : WithConfigFile(x)
  \/ \E x \in Images : WithOutputImage(x)
  \/ \E x \in Tarballs : WithOutputTarball(x)
  \/ \E x \in Tags : WithTag(x)
  \/ \E x \in CacheDirs : WithCacheDir(x)
  \/ WithBuildArch(ArchX8664)
  \/ \E x \in Archs : WithArchitecture(x)
  \/ \E x \in Contexts : WithBuildContext(x)
  \/ \E x \in BOOLEAN : WithSBOM(x)
  \/ \E x \in BOOLEAN : WithVCS(x)
  \/ ListRoom /\ \E x \in KeyringArgs : WithKeyring(x)
  \/ ListRoom /\ WithKeyRingWolfi
  \/ ListRoom /\ WithKeyRingAlpine
  \/ ListRoom /\ \E x \in ExtraArgVals : WithExtraArg(x)
  \/ BuildCommand

Spec == Init /\ [][Next]_vars

----------------------------------------------------------------------------
(* What the claims about Spec speak of *)

\* the last call was BuildCommand
Built == ret.kind = "result"

\* the last call was a BuildCommand that succeeded
Succeeded == Built /\ ret.err = NilErr

\* index in a successful command of its first positional token: the three
\* positionals sit right before the caller's extra arguments
FirstPositional == Len(ret.cmd) - Len(b.extraArgs) - 2

\* the tokens between the base command and the first positional
FlagSegment == SubSeq(ret.cmd, 3, FirstPositional - 1)

\* how many times token t occurs in sequence s
Occurrences(s, t) == Cardinality({i \in 1..Len(s) : s[i] = t})

\* the path a keyring call is to contribute
ExpectedKeyPath(call) ==
  CASE call.op = "WithKeyring" -> call.arg
    [] call.op = "WithKeyRingWolfi" -> ApkoWolfiSigninRsaKeyPath
    [] call.op = "WithKeyRingAlpine" -> ApkoAlpineSigninRsaKeyPath

\* the concatenation of a sequence of token groups
RECURSIVE Flatten(_)
Flatten(groups) ==
  IF groups = << >> THEN << >> ELSE Head(groups) \o Flatten(Tail(groups))

\* the flag groups in their declared order, each present when its setting calls for it
DeclaredFlagGroups ==
  <<IF b.cacheDir = "" THEN << >> ELSE <<"--cache-dir", b.cacheDir>>>>
    \o [i \in 1..Len(b.keyringPaths) |-> <<"--keyring-append", b.keyringPaths[i]>>]
    \o <<IF b.buildArch = "" THEN << >> ELSE <<"--arch", b.buildArch>>,
         IF b.buildContext = "" THEN << >> ELSE <<"--build-repository-append", b.buildContext>>,
         IF b.sbom THEN << >> ELSE <<"--sbom=false">>,
         IF b.vcs THEN << >> ELSE <<"--vcs=false">>>>

(* C1: BuildCommand fails exactly when a required field is empty; it then
   returns a nil command and the error of the first empty field in the order
   config file, output image, output tarball; otherwise it returns a nil
   error and a non-empty command.  An error never comes with a command. *)
C1_RequiredFields ==
  Built =>
    /\ (ret.err # NilErr) <=> (b.configFile = "" \/ b.outputImage = "" \/ b.outputTarball = "")
    /\ b.configFile = "" => ret.err = <<"config file is required">>
    /\ (b.configFile # "" /\ b.outputImage = "") => ret.err = <<"output image name is required">>
    /\ (b.configFile # "" /\ b.outputImage # "" /\ b.outputTarball = "")
         => ret.err = <<"output tarball path is required">>
    /\ ret.err # NilErr => (ret.nilcmd /\ ret.cmd = << >>)
    /\ ret.err = NilErr => (~ret.nilcmd /\ Len(ret.cmd) > 0)

\* BuildCommand ran with the output image and the tarball both missing
C1_Witness ==
  /\ Built
  /\ b.configFile # "" /\ b.outputImage = "" /\ b.outputTarball = ""
  /\ ret.err = <<"output image name is required">>

(* C2: a successful command is "apko","build", then the flags in the order
   --cache-dir, each --keyring-append, --arch, --build-repository-append,
   --sbom=false, --vcs=false, then the positionals config file, image
   reference, output tarball, then the extra arguments verbatim. *)
C2_Shape ==
  Succeeded =>
    LET cmd == ret.cmd
        n == Len(cmd)
        p == FirstPositional
    IN /\ p >= 3
       /\ cmd[1] = "apko" /\ cmd[2] = "build"
       /\ FlagSegment = Flatten(DeclaredFlagGroups)
       /\ cmd[p] = b.configFile
       /\ cmd[p + 1] = b.outputImage \o ":" \o b.tag
       /\ cmd[p + 2] = b.outputTarball
       /\ SubSeq(cmd, p + 3, n) = b.extraArgs
       /\ SubSeq(cmd, p + 3, n) = h.given.extraArgs

\* a command with a cache dir, a keyring, an architecture and an extra argument
C2_Witness ==
  /\ Succeeded
  /\ b.cacheDir # "" /\ b.buildArch # "" /\ b.buildContext # ""
  /\ Len(b.keyringPaths) = 1 /\ Len(b.extraArgs) = 1
  /\ ~b.sbom /\ b.vcs

(* C3: a builder on which WithSBOM (WithVCS) was never called emits no
   --sbom (--vcs) token; one on which the toggle was disabled emits
   --sbom=false (--vcs=false) exactly once; an enabled toggle emits none. *)
C3_ToggleAsymmetry ==
  Succeeded =>
    /\ ~h.sbomCalled => Occurrences(FlagSegment, "--sbom=false") = 0
    /\ (h.sbomCalled /\ ~b.sbom) => Occurrences(FlagSegment, "--sbom=false") = 1
    /\ (h.sbomCalled /\ b.sbom) => Occurrences(FlagSegment, "--sbom=false") = 0
    /\ ~h.vcsCalled => Occurrences(FlagSegment, "--vcs=false") = 0
    /\ (h.vcsCalled /\ ~b.vcs) => Occurrences(FlagSegment, "--vcs=false") = 1
    /\ (h.vcsCalled /\ b.vcs) => Occurrences(FlagSegment, "--vcs=false") = 0

(* C5: the command holds one "--keyring-append", path pair per call of
   WithKeyring, WithKeyRingWolfi or WithKeyRingAlpine, in call order, the
   path being the argument or the preset's key path; no de-duplication. *)
C5_KeyringOrder ==
  Succeeded =>
    LET first == IF b.cacheDir = "" THEN 3 ELSE 5
        k == Len(h.keyringCalls)
    IN /\ Occurrences(FlagSegment, "--keyring-append") = k
       /\ \A i \in 1..k :
            /\ ret.cmd[first + 2 * (i - 1)] = "--keyring-append"
            /\ ret.cmd[first + 2 * (i - 1) + 1] = ExpectedKeyPath(h.keyringCalls[i])

\* WithKeyring called twice with the same path, after which BuildCommand succeeded
C5_Witness ==
  /\ Succeeded
  /\ Len(h.keyringCalls) = 2
  /\ h.keyringCalls[1] = h.keyringCalls[2]
  /\ h.keyringCalls[1].op = "WithKeyring"

(* C6: BuildCommand called again with no setter call in between returns the
   command the first call returned, also when the first call filled the tag. *)
C6_Idempotent ==
  h.streak.n = 2 => (Succeeded /\ ret.cmd = h.streak.cmd)

\* two BuildCommand calls in a row, the first of which found the tag empty
C6_Witness == h.streak.n = 2 /\ h.streak.filled

(* C7: the second positional of a successful command is outputImage:tag,
   tag being the value last passed to WithTag if that is non-empty and
   "latest" otherwise; the builder's tag field reads that value afterwards. *)
C7_Tag ==
  Succeeded =>
    LET want == IF h.tagArg # << >> /\ h.tagArg[1] # "" THEN h.tagArg[1] ELSE "latest"
    IN /\ ret.cmd[FirstPositional + 1] = b.outputImage \o ":" \o want
       /\ b.tag = want

\* WithTag was last called with the empty string and BuildCommand succeeded
C7_Witness == Succeeded /\ h.tagArg = <<"">> /\ b.tag = "latest"

----------------------------------------------------------------------------
(* The specification SpecAll: one builder, every setter of the type, and    *)
(* BuildCommand, called in any order; a builder is given at most           *)
(* MaxSettings optional settings.                                          *)

VarArgs == {<< >>, <<"x">>, <<"y">>, <<"x", "y">>}
Repos == {"r1", "r2"}
Annotations == {{}, {<<"org.title", "t">>}}

Bit(p) == IF p THEN 1 ELSE 0

\* how many optional settings the builder was given
Settings ==
  Len(h.keyringCalls) + Len(b.extraArgs) + Len(b.keyringAppendPlaintext)
    + Len(b.repositoryAppend) + Len(b.packageAppend)
    + Len(h.given.sbomFormats) + Len(h.given.logPolicy)
    + Bit(b.cacheDir # "") + Bit(b.buildArch # "") + Bit(b.buildContext # "")
    + Bit(h.sbomCalled) + Bit(h.vcsCalled)
    + Bit(b.wolfiKeyring) + Bit(b.alpineKeyring) + Bit(b.debug)
    + Bit(b.noNetwork) + Bit(b.offline) + Bit(b.timestamp # "")
    + Bit(b.annotations # {}) + Bit(b.buildDate # "") + Bit(b.lockfile # "")
    + Bit(b.sbomPath # "") + Bit(b.logLevel # "") + Bit(b.workdir # "")

Room(n) == Settings + n <= MaxSettings

NextAll ==
  \/ \E x \in ConfigFiles : WithConfigFile(x)
  \/ \E x \in Images : WithOutputImage(x)
  \/ \E x \in Tarballs : WithOutputTarball(x)
  \/ \E x \in Tags : WithTag(x)
  \/ Room(1) /\ \E x \in CacheDirs : WithCacheDir(x)
  \/ Room(1) /\ WithBuildArch(ArchAarch64)
  \/ Room(1) /\ \E x \in {"", ArchAarch64} : WithArchitecture(x)
  \/ Room(1) /\ \E x \in Contexts : WithBuildContext(x)
  \/ Room(1) /\ \E x \in BOOLEAN : WithSBOM(x)
  \/ Room(1) /\ \E x \in BOOLEAN : WithVCS(x)
  \/ Room(1) /\ WithKeyring("a")
  \/ Room(1) /\ WithKeyRingWolfi
  \/ Room(1) /\ WithKeyRingAlpine
  \/ Room(1) /\ WithExtraArg("--x")
  \/ Room(1) /\ WithWolfiKeyring
  \/ Room(1) /\ WithAlpineKeyring
  \/ Room(1) /\ WithDebug
  \/ Room(1) /\ WithNoNetwork
  \/ Room(1) /\ WithOffline
  \/ Room(1) /\ WithKeyringAppendPlaintext("key")
  \/ Room(1) /\ \E x \in Repos : WithRepositoryAppend(x)
  \/ Room(1) /\ \E x \in {"", "2024-01-01T00:00:00Z"} : WithTimestamp(x)
  \/ Room(1) /\ \E x \in Annotations : WithAnnotations(x)
  \/ Room(1) /\ \E x \in {"", "2024-01-01"} : WithBuildDate(x)
  \/ Room(1) /\ \E x \in {"", "apko.lock.json"} : WithLockfile(x)
  \/ Room(1) /\ \E x \in {"", "/sbom"} : WithSBOMPath(x)
  \/ Room(1) /\ \E x \in {"", "debug"} : WithLogLevel(x)
  \/ Room(1) /\ \E x \in {"", "/work"} : WithWorkdir(x)
  \/ \E x \in VarArgs : Room(Len(x)) /\ WithPackageAppend(x)
  \/ \E x \in VarArgs : Room(Len(x)) /\ WithSBOMFormats(x)
  \/ \E x \in VarArgs : Room(Len(x)) /\ WithLogPolicy(x)
  \/ BuildCommand

SpecAll == Init /\ [][NextAll]_vars

\* the keyring paths the keyring calls are to leave, in call order
ExpectedKeyPaths == [i \in 1..Len(h.keyringCalls) |-> ExpectedKeyPath(h.keyringCalls[i])]

C8_Frame ==
  [][ret'.kind = "result" =>
       b' = [b EXCEPT !.tag = IF @ = "" /\ ret'.err = NilErr THEN "latest" ELSE @]]_vars

\* BuildCommand failed on a builder with an empty tag and optional settings
C8_Witness ==
  /\ Built /\ ret.err # NilErr
  /\ b.tag = "" /\ b.configFile # ""
  /\ b.debug /\ b.packageAppend # << >>

----------------------------------------------------------------------------
(* The specification SpecPreset: GetKeyringInfoForPreset called once on a   *)
(* name drawn from the two preset names, their spellings in other case,    *)
(* their prefixes and their extensions by one character.                   *)

ToUpper(c) ==
  CASE c = "w" -> "W" [] c = "o" -> "O" [] c = "l" -> "L" [] c = "f" -> "F"
    [] c = "i" -> "I" [] c = "a" -> "A" [] c = "p" -> "P" [] c = "n" -> "N"
    [] c = "e" -> "E" [] OTHER -> c

CaseVariants(name) ==
  {[i \in 1..Len(name) |-> IF i \in S THEN ToUpper(name[i]) ELSE name[i]] :
     S \in SUBSET (1..Len(name))}

Prefixes(name) == {SubSeq(name, 1, k) : k \in 0..Len(name)}

Padded(name) == UNION {{name \o <<c>>, <<c>> \o name} : c \in {" ", "s", "2"}}

PresetInputs ==
  UNION {CaseVariants(n) \cup Prefixes(n) \cup Padded(n) : n \in {WolfiName, AlpineName}}

InitPreset ==
  /\ InitBuilder
  /\ preset \in PresetInputs
  /\ info = [set |-> FALSE, info |-> EmptyKeyringInfo, err |-> NilErr]
  /\ mntPrefix = << >>
  /\ cfgFile = << >>
  /\ cfgRet = [set |-> FALSE, path |-> << >>, err |-> NilErr]

CallGetKeyringInfoForPreset ==
  /\ ~info.set
  /\ LET r == GetKeyringInfoForPreset(preset) IN
     info' = [set |-> TRUE, info |-> r.info, err |-> r.err]
  /\ UNCHANGED <<preset, builderVars, configVars>>

NextPreset == CallGetKeyringInfoForPreset

SpecPreset == InitPreset /\ [][NextPreset]_vars

(* C9: "wolfi" and "alpine", spelled exactly so, return their fixed URL and
   key path with a nil error, the key paths being the exported constants;
   every other name returns an empty KeyringInfo and an unsupported-preset
   error. *)
C9_PresetLookup ==
  info.set =>
    /\ preset = WolfiName =>
         /\ info.err = NilErr
         /\ info.info.KeyURL = "https://packages.wolfi.dev/os/wolfi-signing.rsa.pub"
         /\ info.info.KeyPath = "/etc/apk/keys/wolfi-signing.rsa.pub"
         /\ info.info.KeyPath = ApkoWolfiSigninRsaKeyPath
    /\ preset = AlpineName =>
         /\ info.err = NilErr
         /\ info.info.KeyURL = "https://alpinelinux.org/keys/alpine-devel@lists.alpinelinux.org-4a6a0840.rsa.pub"
         /\ info.info.KeyPath = ApkoAlpineSigninRsaKeyPath
    /\ preset \notin {WolfiName, AlpineName} =>
         /\ info.info = [KeyURL |-> "", KeyPath |-> ""]
         /\ info.err = <<"unsupported preset: %s", preset>>

\* the lookup of "Wolfi" was refused
C9_Witness ==
  /\ info.set
  /\ preset = <<"W", "o", "l", "f", "i">>
  /\ info.err # NilErr

----------------------------------------------------------------------------
(* GetApkoConfigOrPreset *)

\* filepath.Ext: the suffix from the last dot of the last path element
RECURSIVE ExtFrom(_, _)
ExtFrom(path, i) ==
  IF i >= 1 /\ path[i] # "/"
    THEN IF path[i] = "." THEN SubSeq(path, i, Len(path)) ELSE ExtFrom(path, i - 1)
    ELSE << >>

Ext(path) == ExtFrom(path, Len(path))

DotYaml == <<".", "y", "a", "m", "l">>

DotYml == <<".", "y", "m", "l">>

\* a check that accepts .yaml only
GetApkoConfigOrPresetYamlOnly(prefix, file) ==
  LET pfx == IF prefix = << >> THEN FixturesMntPrefix ELSE prefix IN
  IF file = << >> THEN [path |-> << >>, err |-> Errorf("config file is required", << >>)]
  ELSE LET ext == Ext(file) IN
       IF ext = << >>
         THEN [path |-> << >>, err |-> Errorf("config file must have an extension", << >>)]
       ELSE IF ext # DotYaml
         THEN [path |-> << >>,
               err |-> Errorf("config file must have a .yaml or .yml extension", << >>)]
       ELSE [path |-> file, err |-> NilErr]

GetApkoConfigOrPreset(prefix, file) ==
  LET pfx == IF prefix = << >> THEN FixturesMntPrefix ELSE prefix IN
  IF file = << >> THEN [path |-> << >>, err |-> Errorf("config file is required", << >>)]
  ELSE LET ext == Ext(file) IN
       IF ext = << >>
         THEN [path |-> << >>, err |-> Errorf("config file must have an extension", << >>)]
       ELSE IF ext # DotYaml /\ ext # DotYml
         THEN [path |-> << >>,
               err |-> Errorf("config file must have a .yaml or .yml extension", << >>)]
       ELSE [path |-> file, err |-> NilErr]

----------------------------------------------------------------------------
(* The specification SpecConfig: GetApkoConfigOrPreset called once on a    *)
(* mount prefix and a path of at most MaxFileLen characters.               *)

PathChars == {".", "/", "y", "a", "m", "l"}

FilePaths == UNION {[1..k -> PathChars] : k \in 0..MaxFileLen}

MntPrefixes == {<< >>, <<"/", "a">>}

InitConfig ==
  /\ InitBuilder
  /\ preset = << >>
  /\ info = [set |-> FALSE, info |-> EmptyKeyringInfo, err |-> NilErr]
  /\ mntPrefix \in MntPrefixes
  /\ cfgFile \in FilePaths
  /\ cfgRet = [set |-> FALSE, path |-> << >>, err |-> NilErr]

CallGetApkoConfigOrPreset ==
  /\ ~cfgRet.set
  /\ LET r == GetApkoConfigOrPreset(mntPrefix, cfgFile) IN
     cfgRet' = [set |-> TRUE, path |-> r.path, err |-> r.err]
  /\ UNCHANGED <<mntPrefix, cfgFile, builderVars, presetVars>>

NextConfig == CallGetApkoConfigOrPreset

SpecConfig == InitConfig /\ [][NextConfig]_vars

\* where the last path element of f starts
LastElementStart(f) ==
  LET slashes == {i \in 1..Len(f) : f[i] = "/"} IN
  IF slashes = {} THEN 1 ELSE (CHOOSE i \in slashes : \A j \in slashes : j <= i) + 1

\* the positions of the dots of the last path element of f
LastElementDots(f) == {i \in LastElementStart(f)..Len(f) : f[i] = "."}

\* the extension of f: its last element from that element's last dot on
ExtensionOf(f) ==
  LET dots == LastElementDots(f) IN
  IF dots = {} THEN << >>
  ELSE SubSeq(f, CHOOSE i \in dots : \A j \in dots : j <= i, Len(f))

(* C10: an empty file fails with 'config file is required', a file without
   extension with 'config file must have an extension', a file with another
   extension than .yaml or .yml with 'config file must have a .yaml or .yml
   extension'; otherwise the file is returned unchanged with a nil error.
   The prefix changes nothing, and an error comes with the empty string. *)
C10_ConfigFile ==
  cfgRet.set =>
    /\ cfgFile = << >> => cfgRet.err = <<"config file is required">>
    /\ (cfgFile # << >> /\ ExtensionOf(cfgFile) = << >>)
         => cfgRet.err = <<"config file must have an extension">>
    /\ (cfgFile # << >> /\ ExtensionOf(cfgFile) # << >>
          /\ ExtensionOf(cfgFile) \notin {DotYaml, DotYml})
         => cfgRet.err = <<"config file must have a .yaml or .yml extension">>
    /\ (cfgFile # << >> /\ ExtensionOf(cfgFile) \in {DotYaml, DotYml})
         => (cfgRet.err = NilErr /\ cfgRet.path = cfgFile)
    /\ cfgRet.err # NilErr => cfgRet.path = << >>
    /\ \A p \in MntPrefixes :
         GetApkoConfigOrPreset(p, cfgFile) = [path |-> cfgRet.path, err |-> cfgRet.err]

\* "a.yml" was accepted under a non-empty prefix
C10_Witness ==
  /\ cfgRet.set
  /\ mntPrefix # << >>
  /\ cfgFile = <<"a", ".", "y", "m", "l">>
  /\ cfgRet.err = NilErr

====
